---- MODULE Spec2Model ----
(***************************************************************************)
(* ticketpy: the paged-response iterator of ticketpy/client.py             *)
(* (ApiClient._search, PageIterator, Page) as a state machine.  The       *)
(* Ticketmaster server is the environment: every HTTP request is answered  *)
(* with a body the server chooses, or fails in the transport.              *)
(***************************************************************************)
EXTENDS Integers, Sequences, FiniteSets, TLC

VARIABLES
    phase,   \* "new": no search made; "iter": a PageIterator exists; "failed": _search raised
    it,      \* the PageIterator: page, start_page, current_page, end_page
    hist,    \* what has happened to this iterator since it was constructed
    last     \* the most recent call: its arguments, the state before it, its result

vars == <<phase, it, hist, last>>

(***************************************************************************)
(* Bounds of the model.                                                    *)
(***************************************************************************)
MaxPage == 3        \* the first page's number and totalPages range over 0..MaxPage

\* limit(max_pages) is called with these integers: up to more than any totalPages
LimitArgs == 0..(MaxPage + 1)

MaxHrefLen == 4     \* the hrefs written over HrefAlphabet have 1..MaxHrefLen characters

(***************************************************************************)
(* Python values.  A str is a sequence of one-character strings, a list a  *)
(* sequence, a dict a function from its keys.  None is the function with   *)
(* no argument: the strs, lists and dicts the model handles are not empty  *)
(* (save the {} that kwargs.get('_embedded', {}) supplies), so None is     *)
(* none of them, and it can be compared with each of them.                 *)
(***************************************************************************)
None == <<>>

\* str(None), as "{}".format(None) renders it
NoneText == <<"N", "o", "n", "e">>

format_value(v) == IF v = None THEN NoneText ELSE v

\* ApiClient.base_url
base_url ==
    <<"h", "t", "t", "p", "s", ":", "/", "/", "a", "p", "p", ".",
      "t", "i", "c", "k", "e", "t", "m", "a", "s", "t", "e", "r", ".", "c", "o", "m">>

\* '{&sort}', the fragment Page.link_next removes
SortTemplate == <<"{", "&", "s", "o", "r", "t", "}">>

StartsWith(s, pre) ==
    /\ Len(s) >= Len(pre)
    /\ SubSeq(s, 1, Len(pre)) = pre

\* str.replace(old, new): every non-overlapping occurrence, left to right
RECURSIVE str_replace(_, _, _)
str_replace(s, old, new) ==
    IF s = <<>> THEN <<>>
    ELSE IF StartsWith(s, old)
         THEN new \o str_replace(SubSeq(s, Len(old) + 1, Len(s)), old, new)
         ELSE <<Head(s)>> \o str_replace(Tail(s), old, new)

\* the decimal digits, 0 first
DecimalDigits == <<"0", "1", "2", "3", "4", "5", "6", "7", "8", "9">>

(***************************************************************************)
(* Response bodies (decoded JSON).  A JSON object is a function from its   *)
(* keys; a missing key is a key outside the DOMAIN.                        *)
(***************************************************************************)
HasKey(obj, k) == k \in DOMAIN obj

\* {}
EmptyDict == [k \in {} |-> TRUE]

\* the dict without key k (del d[k])
DelKey(d, k) == [x \in DOMAIN d \ {k} |-> d[x]]

\* the hrefs the server puts in _links; the 'next' href carries the {&sort} template
HrefNext == <<"/", "e", "?", "p", "{", "&", "s", "o", "r", "t", "}">>
HrefSelf == <<"/", "e">>
Hrefs == {HrefNext}

\* the page size the searches ask for: page 0 lies below the depth of 1000 results,
\* every later page at or beyond it
PageSizes == {1000}

\* the page size of a search that asks for none
DefaultSize == 20

\* the totalPages a search with the default page size may report
DefaultTotals == 0..12

\* the number of entities a page embeds
ItemCounts == {0, 2}

\* the JSON of the i-th entity of page `number`: an event with its id and dates
EntityJson(number, i) == [id |-> <<number, i>>, dates |-> [timezone |-> <<"UTC">>]]

EmbeddedJson(number, cnt) == [events |-> [i \in 1..cnt |-> EntityJson(number, i)]]

LinksJson(next) ==
    IF next = None
    THEN [self |-> [href |-> HrefSelf]]
    ELSE [self |-> [href |-> HrefSelf], next |-> [href |-> next]]

\* a page of results; a page with no entity has no '_embedded' block
PageBody(number, size, total, next, cnt) ==
    IF cnt = 0
    THEN [page |-> [number |-> number, size |-> size,
                    totalElements |-> total * size, totalPages |-> total],
          _links |-> LinksJson(next)]
    ELSE [page |-> [number |-> number, size |-> size,
                    totalElements |-> total * size, totalPages |-> total],
          _links |-> LinksJson(next),
          _embedded |-> EmbeddedJson(number, cnt)]

\* {'errors': [...]}: the body of a rejected request
ErrorsBody ==
    [errors |-> <<[code |-> "DIS1004", detail |-> "bad parameter", status |-> "400"]>>]

\* {'fault': {...}}: the body of an authentication failure
FaultBody ==
    [fault |-> [faultstring |-> "Invalid ApiKey", detail |-> "policy"]]

\* requests.get(...) or .json() raised instead of returning a body
TransportFailure == [raised |-> "RequestException"]

\* the body used where a call made no request
NoResponse == [none |-> TRUE]

PageBodies(numbers, size, totals) ==
    { PageBody(n, size, t, nx, c) :
        n \in numbers, t \in totals, nx \in {None} \cup Hrefs, c \in ItemCounts }

\* what the server may answer to the first request of a search
SearchResponses(size) ==
    PageBodies(0..MaxPage, size, 0..MaxPage) \cup {ErrorsBody, FaultBody}

\* what the server may answer to the request for page `requested`: that page or the
\* page after it, reporting the same totalPages or none at all; or an error body; or
\* nothing
NextResponses(requested, size, total) ==
    PageBodies({requested, requested + 1}, size, {total, 0})
        \cup {ErrorsBody, FaultBody, TransportFailure}

(***************************************************************************)
(* ticketpy.model: _Util.assign_links                                      *)
(***************************************************************************)
MaxOf(S) == CHOOSE x \in S : \A y \in S : y <= x

\* re.sub("({.+})", "", s): the leftmost '{', one character or more (none of them a
\* newline) and the last '}' that can follow them are removed, then the rest is
\* treated likewise
RECURSIVE re_sub_braces(_)
re_sub_braces(s) ==
    IF s = <<>> THEN <<>>
    ELSE LET ends == { j \in 3..Len(s) :
                         s[j] = "}" /\ \A k \in 2..(j - 1) : s[k] # "\n" }
         IN IF s[1] = "{" /\ ends # {}
            THEN re_sub_braces(SubSeq(s, MaxOf(ends) + 1, Len(s)))
            ELSE <<s[1]>> \o re_sub_braces(Tail(s))

\* dict.get(key): None when the key is missing
Get(obj, k) == IF HasKey(obj, k) THEN obj[k] ELSE None

\* _Util.assign_links(obj, json_obj, base_url): the dict it stores in obj.links
assign_links(json_obj, url) ==
    LET json_links == IF HasKey(json_obj, "_links") THEN json_obj._links ELSE EmptyDict
    IN [k \in DOMAIN json_links |->
          LET v == json_links[k]
          IN IF HasKey(v, "href")
             THEN LET href == re_sub_braces(v.href)
                  IN IF url # None THEN url \o format_value(href) ELSE href
             ELSE v]

\* ticketpy.ApiClient.root_url, which Page.from_json passes to assign_links
root_url == base_url

(***************************************************************************)
(* ticketpy.model: the decoders.  A decoder returns a value or raises: its *)
(* result is [ok |-> TRUE, val |-> v] or [ok |-> FALSE, exc |-> e].  A     *)
(* decoded object is the record of its attributes, with its class.         *)
(***************************************************************************)
Ok(v) == [ok |-> TRUE, val |-> v]
Raise(e) == [ok |-> FALSE, exc |-> e]

\* `if v:` for a value that is None, a str, a list or a dict
Truthy(v) == v # None

\* a list comprehension over decoders: the list, or the first exception raised
ListOf(results) ==
    IF \A i \in DOMAIN results : results[i].ok
    THEN Ok([i \in DOMAIN results |-> results[i].val])
    ELSE Raise(results[CHOOSE i \in DOMAIN results :
                          /\ ~results[i].ok
                          /\ \A j \in DOMAIN results : j < i => results[j].ok].exc)

\* the parts of an object, each decoded by a step that returns or raises
AllOk(parts) == \A k \in DOMAIN parts : parts[k].ok

\* the exception of the first step that raised, the steps being taken in `order`
FirstRaised(parts, order) ==
    parts[order[CHOOSE i \in DOMAIN order :
                  /\ ~parts[order[i]].ok
                  /\ \A j \in DOMAIN order : j < i => parts[order[j]].ok]]

\* attr_map with 'line_2' mapped to 'line1', as 'line_1' is
attr_map_colliding ==
    << <<"accepted_payment_detail", "acceptedPaymentDetail">>,
       <<"accessible_seating_detail", "accessibleSeatingDetail">>,
       <<"additional_info", "additionalInfo">>,
       <<"attraction_id", "attractionId">>,
       <<"box_office_info", "boxOfficeInfo">>,
       <<"child_rule", "childRule">>,
       <<"classification_id", "classificationId">>,
       <<"classification_name", "classificationName">>,
       <<"client_visibility", "clientVisibility">>,
       <<"country_code", "countryCode">>,
       <<"date_tba", "dateTBA">>,
       <<"date_tbd", "dateTBD">>,
       <<"date_time", "dateTime">>,
       <<"dma_id", "dmaId">>,
       <<"end_approximate", "endApproximate">>,
       <<"end_date_time", "endDateTime">>,
       <<"general_info", "generalInfo">>,
       <<"general_rule", "generalRule">>,
       <<"id", "id">>,
       <<"include_tba", "includeTBA">>,
       <<"include_tbd", "includeTBD">>,
       <<"include_test", "includeTest">>,
       <<"keyword", "keyword">>,
       <<"latlong", "latlong">>,
       <<"line_1", "line1">>,
       <<"line_2", "line1">>,
       <<"line_3", "line3">>,
       <<"local_date", "localDate">>,
       <<"local_time", "localTime">>,
       <<"locale", "locale">>,
       <<"market_id", "marketId">>,
       <<"no_specific_time", "noSpecificTime">>,
       <<"onsale_end_date_time", "onsaleEndDateTime">>,
       <<"onsale_start_date_time", "onsaleStartDateTime">>,
       <<"open_hours_detail", "openHoursDetail">>,
       <<"page", "page">>,
       <<"parking_detail", "parkingDetail">>,
       <<"phone_number_detail", "phoneNumberDetail">>,
       <<"please_note", "pleaseNote">>,
       <<"postal_code", "postalCode">>,
       <<"price_ranges", "priceRanges">>,
       <<"promoter_id", "promoterId">>,
       <<"radius", "radius">>,
       <<"segment_id", "segmentId">>,
       <<"segment_name", "segmentName">>,
       <<"size", "size">>,
       <<"sort", "sort">>,
       <<"span_multiple_days", "spanMultipleDays">>,
       <<"start_approximate", "startApproximate">>,
       <<"start_date_time", "startDateTime">>,
       <<"start_tbd", "startTBD">>,
       <<"state_code", "stateCode">>,
       <<"subtype", "subType">>,
       <<"time_tba", "timeTBA">>,
       <<"venue_id", "venueId">>,
       <<"will_call_detail", "willCallDetail">> >>

\* attr_map, in the order of its items: <<keyword argument, API parameter>>
attr_map ==
    << <<"accepted_payment_detail", "acceptedPaymentDetail">>,
       <<"accessible_seating_detail", "accessibleSeatingDetail">>,
       <<"additional_info", "additionalInfo">>,
       <<"attraction_id", "attractionId">>,
       <<"box_office_info", "boxOfficeInfo">>,
       <<"child_rule", "childRule">>,
       <<"classification_id", "classificationId">>,
       <<"classification_name", "classificationName">>,
       <<"client_visibility", "clientVisibility">>,
       <<"country_code", "countryCode">>,
       <<"date_tba", "dateTBA">>,
       <<"date_tbd", "dateTBD">>,
       <<"date_time", "dateTime">>,
       <<"dma_id", "dmaId">>,
       <<"end_approximate", "endApproximate">>,
       <<"end_date_time", "endDateTime">>,
       <<"general_info", "generalInfo">>,
       <<"general_rule", "generalRule">>,
       <<"id", "id">>,
       <<"include_tba", "includeTBA">>,
       <<"include_tbd", "includeTBD">>,
       <<"include_test", "includeTest">>,
       <<"keyword", "keyword">>,
       <<"latlong", "latlong">>,
       <<"line_1", "line1">>,
       <<"line_2", "line2">>,
       <<"line_3", "line3">>,
       <<"local_date", "localDate">>,
       <<"local_time", "localTime">>,
       <<"locale", "locale">>,
       <<"market_id", "marketId">>,
       <<"no_specific_time", "noSpecificTime">>,
       <<"onsale_end_date_time", "onsaleEndDateTime">>,
       <<"onsale_start_date_time", "onsaleStartDateTime">>,
       <<"open_hours_detail", "openHoursDetail">>,
       <<"page", "page">>,
       <<"parking_detail", "parkingDetail">>,
       <<"phone_number_detail", "phoneNumberDetail">>,
       <<"please_note", "pleaseNote">>,
       <<"postal_code", "postalCode">>,
       <<"price_ranges", "priceRanges">>,
       <<"promoter_id", "promoterId">>,
       <<"radius", "radius">>,
       <<"segment_id", "segmentId">>,
       <<"segment_name", "segmentName">>,
       <<"size", "size">>,
       <<"sort", "sort">>,
       <<"span_multiple_days", "spanMultipleDays">>,
       <<"start_approximate", "startApproximate">>,
       <<"start_date_time", "startDateTime">>,
       <<"start_tbd", "startTBD">>,
       <<"state_code", "stateCode">>,
       <<"subtype", "subType">>,
       <<"time_tba", "timeTBA">>,
       <<"venue_id", "venueId">>,
       <<"will_call_detail", "willCallDetail">> >>

\* BaseQuery.attr_map (ticketpy.query), in the order of its items
BaseQuery_attr_map ==
    << <<"start_date_time", "startDateTime">>,
       <<"end_date_time", "endDateTime">>,
       <<"onsale_start_date_time", "onsaleStartDateTime">>,
       <<"onsale_end_date_time", "onsaleEndDateTime">>,
       <<"country_code", "countryCode">>,
       <<"state_code", "stateCode">>,
       <<"venue_id", "venueId">>,
       <<"attraction_id", "attractionId">>,
       <<"segment_id", "segmentId">>,
       <<"segment_name", "segmentName">>,
       <<"classification_name", "classificationName">>,
       <<"classification_id", "classificationId">>,
       <<"market_id", "marketId">>,
       <<"promoter_id", "promoterId">>,
       <<"dma_id", "dmaId">>,
       <<"include_tba", "includeTBA">>,
       <<"include_tbd", "includeTBD">>,
       <<"client_visibility", "clientVisibility">>,
       <<"include_test", "includeTest">>,
       <<"keyword", "keyword">>,
       <<"id", "id">>,
       <<"sort", "sort">>,
       <<"page", "page">>,
       <<"size", "size">>,
       <<"locale", "locale">>,
       <<"latlong", "latlong">>,
       <<"radius", "radius">> >>

\* the keys and the values of a table
Keys(table) == { table[i][1] : i \in DOMAIN table }
Values(table) == { table[i][2] : i \in DOMAIN table }

\* table[k], for a key k of the table
Lookup(table, k) == table[CHOOSE i \in DOMAIN table : table[i][1] = k][2]

\* BaseQuery._search_params, lines 125-130: the name a parameter is sent under
api_name(table, k) == IF k \in Keys(table) THEN Lookup(table, k) ELSE k

\* BaseQuery._search_params with the table `table`: the parameters under their API
\* names, the last of two parameters with one API name winning, less those that are
\* None
search_params_of(table, order, kwargs) ==
    LET names == { api_name(table, k) : k \in DOMAIN kwargs }
        kw_map == [n \in names |->
                     kwargs[order[CHOOSE i \in DOMAIN order :
                                    /\ order[i] \in DOMAIN kwargs
                                    /\ api_name(table, order[i]) = n
                                    /\ \A j \in DOMAIN order :
                                          ( j > i /\ order[j] \in DOMAIN kwargs )
                                          => api_name(table, order[j]) # n]]]
    IN [n \in { x \in names : kw_map[x] # None } |-> kw_map[n]]

\* kwargs[k] = kwargs[v]; del kwargs[v]
rename_key(kwargs, k, v) ==
    [x \in (DOMAIN kwargs \ {v}) \cup {k} |-> IF x = k THEN kwargs[v] ELSE kwargs[x]]

\* update_kwargs, lines 662-665: the loop over attr_map.items(), from item i on
RECURSIVE rename_from(_, _)
rename_from(kwargs, i) ==
    IF i > Len(attr_map) THEN kwargs
    ELSE LET k == attr_map[i][1]
             v == attr_map[i][2]
         IN IF HasKey(kwargs, v) /\ v # k
            THEN rename_from(rename_key(kwargs, k, v), i + 1)
            ELSE rename_from(kwargs, i + 1)

IsDigit(c) == c \in {"0", "1", "2", "3", "4", "5", "6", "7", "8", "9"}

DigitValue(c) == CHOOSE d \in 0..9 : DecimalDigits[d + 1] = c

\* the number two digits write
TwoDigits(chars, i) == 10 * DigitValue(chars[i]) + DigitValue(chars[i + 1])

DaysIn(year, month) ==
    IF month \in {4, 6, 9, 11} THEN 30
    ELSE IF month # 2 THEN 31
    ELSE IF year % 4 = 0 /\ (year % 100 # 0 \/ year % 400 = 0) THEN 29
    ELSE 28

\* _Util.format_utc_timestamp: datetime.strptime(timestamp, "%Y-%m-%dT%H:%M:%SZ"),
\* for a timestamp written with two digits for each field but the year
format_utc_timestamp(timestamp) ==
    IF /\ Len(timestamp) = 20
       /\ \A i \in {1, 2, 3, 4, 6, 7, 9, 10, 12, 13, 15, 16, 18, 19} : IsDigit(timestamp[i])
       /\ timestamp[5] = "-" /\ timestamp[8] = "-" /\ timestamp[11] = "T"
       /\ timestamp[14] = ":" /\ timestamp[17] = ":" /\ timestamp[20] = "Z"
    THEN LET year == 100 * TwoDigits(timestamp, 1) + TwoDigits(timestamp, 3)
             month == TwoDigits(timestamp, 6)
             day == TwoDigits(timestamp, 9)
             hour == TwoDigits(timestamp, 12)
             minute == TwoDigits(timestamp, 15)
             second == TwoDigits(timestamp, 18)
         IN IF /\ year >= 1 /\ month \in 1..12 /\ day \in 1..DaysIn(year, month)
               /\ hour <= 23 /\ minute <= 59 /\ second <= 59
            THEN Ok(<<"datetime", year, month, day, hour, minute, second>>)
            ELSE Raise("ValueError")
    ELSE Raise("ValueError")

\* update_kwargs, line 668: kwargs['dateTime'] = the parsed timestamp
with_date_time(kwargs, parsed) ==
    IF parsed.ok THEN Ok([kwargs EXCEPT !.dateTime = parsed.val]) ELSE parsed

\* update_kwargs, lines 667-668
parse_date_time(kwargs) ==
    IF HasKey(kwargs, "dateTime")
    THEN with_date_time(kwargs, format_utc_timestamp(kwargs.dateTime))
    ELSE Ok(kwargs)

\* _Util.update_kwargs: the dict as it leaves kwargs, or the exception of strptime
update_kwargs(kwargs) == parse_date_time(rename_from(kwargs, 1))

\* a call with keyword arguments: TypeError on a keyword that is no parameter, and
\* None for a parameter not given
call_with(params, kwargs) ==
    IF ~kwargs.ok THEN kwargs
    ELSE IF ~(DOMAIN kwargs.val \subseteq params) THEN Raise("TypeError")
    ELSE Ok([k \in params |-> Get(kwargs.val, k)])

\* _Util.namedtuple(namedtuple_model, json_obj), with the model's _fields
namedtuple(fields, json_obj) ==
    IF ~Truthy(json_obj) THEN Ok(None)
    ELSE call_with(fields, update_kwargs(json_obj))

\* [_Util.namedtuple(model, x) for x in json_list]
namedtuples(fields, json_list) ==
    ListOf([i \in DOMAIN json_list |-> namedtuple(fields, json_list[i])])

\* the _fields of the namedtuples
Address == {"line_1", "line_2", "line_3"}
City == {"name"}
State == {"state_code", "name"}
Country == {"country_code", "name"}
Location == {"latitude", "longitude"}
Area == {"name"}
Image == {"url", "ratio", "width", "height", "fallback", "attribution"}
Event_Price == {"type", "currency", "min", "max"}
Event_Promoter == {"id", "name", "description"}
Venue_DMA == {"id"}
Venue_BoxOfficeInfo ==
    {"phone_number_detail", "open_hours_detail", "accepted_payment_detail",
     "will_call_detail"}
Venue_Market == {"id"}
Venue_GeneralInfo == {"general_rule", "child_rule"}
Dates_Start ==
    {"local_date", "local_time", "date_time", "date_tbd", "date_tba", "time_tba",
     "no_specific_time"}
Dates_End == {"local_time", "local_date", "date_time", "approximate", "no_specific_time"}
Dates_Access ==
    {"start_date_time", "start_approximate", "end_date_time", "end_approximate"}
Dates_Status == {"code"}
Sales_PublicSale == {"start_date_time", "end_date_time", "start_tbd"}
Sales_Presale == {"name", "description", "url", "start_date_time", "end_date_time"}

\* Subgenre.from_json
Subgenre_from_json(json_obj) ==
    IF ~HasKey(json_obj, "id") \/ ~HasKey(json_obj, "name") THEN Raise("KeyError")
    ELSE Ok([__class__ |-> "Subgenre",
             id |-> json_obj.id,
             name |-> json_obj.name,
             links |-> assign_links(json_obj, None)])

\* an object of class `cls` with these attributes, once every part is decoded
Object(cls, parts, order, attributes) ==
    IF ~AllOk(parts) THEN FirstRaised(parts, order)
    ELSE Ok([a \in DOMAIN attributes \cup DOMAIN parts \cup {"__class__"} |->
               IF a = "__class__" THEN cls
               ELSE IF a \in DOMAIN parts THEN parts[a].val
               ELSE attributes[a]])

\* Genre.from_json
Genre_from_json(json_obj) ==
    Object("Genre",
           [subgenres |->
                IF ~HasKey(json_obj, "_embedded") THEN Ok(None)
                ELSE IF ~HasKey(json_obj._embedded, "subgenres") THEN Raise("KeyError")
                ELSE ListOf([i \in DOMAIN json_obj._embedded.subgenres |->
                                Subgenre_from_json(json_obj._embedded.subgenres[i])])],
           <<"subgenres">>,
           [id |-> Get(json_obj, "id"),
            name |-> Get(json_obj, "name"),
            links |-> assign_links(json_obj, None)])

\* Segment.from_json
Segment_from_json(json_obj) ==
    IF ~HasKey(json_obj, "id") \/ ~HasKey(json_obj, "name") THEN Raise("KeyError")
    ELSE Object("Segment",
                [genres |->
                    IF ~HasKey(json_obj, "_embedded") THEN Ok(None)
                    ELSE IF ~HasKey(json_obj._embedded, "genres") THEN Raise("KeyError")
                    ELSE ListOf([i \in DOMAIN json_obj._embedded.genres |->
                                    Genre_from_json(json_obj._embedded.genres[i])])],
                <<"genres">>,
                [id |-> json_obj.id,
                 name |-> json_obj.name,
                 links |-> assign_links(json_obj, None)])

\* ClassificationType(cl_t['id'], cl_t['name'])
ClassificationType(cl_t) ==
    IF ~HasKey(cl_t, "id") \/ ~HasKey(cl_t, "name") THEN Raise("KeyError")
    ELSE Ok([__class__ |-> "ClassificationType",
             id |-> cl_t.id, name |-> cl_t.name, subtypes |-> None])

\* ClassificationSubType(subtype['id'], subtype['name'])
ClassificationSubType(subtype) ==
    IF ~HasKey(subtype, "id") \/ ~HasKey(subtype, "name") THEN Raise("KeyError")
    ELSE Ok([__class__ |-> "ClassificationSubType",
             id |-> subtype.id, name |-> subtype.name])

\* Classification.from_json
Classification_from_json(json_obj) ==
    Object("Classification",
           [segment |-> IF Truthy(Get(json_obj, "segment"))
                        THEN Segment_from_json(json_obj.segment) ELSE Ok(None),
            type |-> IF Truthy(Get(json_obj, "type"))
                     THEN ClassificationType(json_obj.type) ELSE Ok(None),
            subtype |-> IF Truthy(Get(json_obj, "subType"))
                        THEN ClassificationSubType(json_obj.subType) ELSE Ok(None)],
           <<"segment", "type", "subtype">>,
           [primary |-> Get(json_obj, "primary"),
            links |-> assign_links(json_obj, None)])

\* EventClassification.from_json
EventClassification_from_json(json_obj) ==
    Object("EventClassification",
           [segment |-> IF Truthy(Get(json_obj, "segment"))
                        THEN Segment_from_json(json_obj.segment) ELSE Ok(None),
            genre |-> IF Truthy(Get(json_obj, "genre"))
                      THEN Genre_from_json(json_obj.genre) ELSE Ok(None),
            subgenre |-> IF Truthy(Get(json_obj, "subGenre"))
                         THEN Subgenre_from_json(json_obj.subGenre) ELSE Ok(None),
            type |-> IF Truthy(Get(json_obj, "type"))
                     THEN ClassificationType(json_obj.type) ELSE Ok(None),
            subtype |-> IF Truthy(Get(json_obj, "subType"))
                        THEN ClassificationSubType(json_obj.subType) ELSE Ok(None)],
           <<"segment", "genre", "subgenre", "type", "subtype">>,
           [primary |-> Get(json_obj, "primary"),
            links |-> assign_links(json_obj, None)])

\* Dates.from_json: json_obj.get raises AttributeError when json_obj is None
Dates_from_json(json_obj) ==
    IF json_obj = None THEN Raise("AttributeError")
    ELSE Object("Dates",
                [start |-> namedtuple(Dates_Start, Get(json_obj, "start")),
                 end |-> namedtuple(Dates_End, Get(json_obj, "end")),
                 access |-> namedtuple(Dates_Access, Get(json_obj, "access")),
                 status |-> namedtuple(Dates_Status, Get(json_obj, "status"))],
                <<"start", "end", "access", "status">>,
                [timezone |-> Get(json_obj, "timezone"),
                 span_multiple_days |-> Get(json_obj, "spanMultipleDays")])

\* Sales.from_json
Sales_from_json(json_obj) ==
    Object("Sales",
           [public |-> IF Truthy(Get(json_obj, "public"))
                       THEN namedtuple(Sales_PublicSale, json_obj.public) ELSE Ok(None),
            presales |-> IF Truthy(Get(json_obj, "presales"))
                         THEN namedtuples(Sales_Presale, json_obj.presales)
                         ELSE Ok(None)],
           <<"public", "presales">>,
           EmptyDict)

\* the values of the parts, once every part is decoded
PartValues(parts, order) ==
    IF ~AllOk(parts) THEN FirstRaised(parts, order)
    ELSE Ok([k \in DOMAIN parts |-> parts[k].val])

\* the dict `first` updated with the dict `second`, when the steps that made
\* `second` have all returned
Updated(first, second) ==
    IF ~second.ok THEN second
    ELSE Ok([k \in DOMAIN first \cup DOMAIN second.val |->
               IF k \in DOMAIN second.val THEN second.val[k] ELSE first[k]])

\* update_kwargs(kwargs), when the steps that made kwargs have all returned
update_made(kwargs) == IF ~kwargs.ok THEN kwargs ELSE update_kwargs(kwargs.val)

\* the object of class `cls` that `cls(**kwargs)` makes
Instance(cls, made) ==
    IF ~made.ok THEN made
    ELSE Ok([a \in DOMAIN made.val \cup {"__class__"} |->
               IF a = "__class__" THEN cls ELSE made.val[a]])

\* the parameters of Place.__init__
Place_init_args ==
    {"address", "area", "city", "country", "location", "name", "postal_code", "state"}

\* Place.from_json
Place_from_json(json_obj) ==
    Instance("Place",
        call_with(Place_init_args,
            update_made(
                Updated([name |-> Get(json_obj, "name"),
                         postalCode |-> Get(json_obj, "postalCode")],
                        PartValues(
                            [area |-> namedtuple(Area, Get(json_obj, "area")),
                             address |-> namedtuple(Address, Get(json_obj, "address")),
                             city |-> namedtuple(City, Get(json_obj, "city")),
                             state |-> namedtuple(State, Get(json_obj, "state")),
                             country |-> namedtuple(Country, Get(json_obj, "country")),
                             location |-> namedtuple(Location, Get(json_obj, "location"))],
                            <<"area", "address", "city", "state", "country",
                              "location">>)))))

\* the parameters of Venue.__init__
Venue_init_args ==
    {"accessible_seating_detail", "additional_info", "address", "box_office_info",
     "city", "country", "currency", "description", "distance", "dmas",
     "general_info", "images", "links", "locale", "location", "markets", "name",
     "parking_detail", "postal_code", "social", "state", "test", "timezone", "type",
     "units", "url", "venue_id"}

\* Venue.from_json, lines 343-346: the plain fields
Venue_args ==
    {"name", "url", "type", "distance", "units", "locale", "description",
     "additionalInfo", "postalCode", "timezone", "currency", "parkingDetail", "test",
     "social"}

\* `images = json_obj.get('images')`, then `if images:` the list of Image tuples
images_of(json_obj) ==
    IF Truthy(Get(json_obj, "images")) THEN namedtuples(Image, json_obj.images)
    ELSE Ok(None)

\* Venue.__init__ stores venue_id in self.id
Venue_attributes(v) ==
    IF ~v.ok THEN v
    ELSE Ok([a \in (DOMAIN v.val \ {"venue_id"}) \cup {"id"} |->
               IF a = "id" THEN v.val.venue_id ELSE v.val[a]])

\* Venue.from_json, lines 364-377: the attributes set after Venue(**kwargs)
Venue_set(v, parts, order, links) ==
    IF ~v.ok THEN v
    ELSE IF ~AllOk(parts) THEN FirstRaised(parts, order)
    ELSE Ok([a \in DOMAIN v.val |->
               IF a \in DOMAIN parts /\ parts[a].val # None THEN parts[a].val
               ELSE IF a = "links" THEN links
               ELSE v.val[a]])

\* Venue.from_json
Venue_from_json(json_venue) ==
    Venue_set(
        Venue_attributes(
            Instance("Venue",
                call_with(Venue_init_args,
                    update_made(
                        Updated([k \in Venue_args |-> Get(json_venue, k)],
                            PartValues(
                                [venue_id |-> Ok(Get(json_venue, "id")),
                                 city |-> namedtuple(City, Get(json_venue, "city")),
                                 state |-> namedtuple(State, Get(json_venue, "state")),
                                 country |->
                                    namedtuple(Country, Get(json_venue, "country")),
                                 address |->
                                    namedtuple(Address, Get(json_venue, "address")),
                                 location |->
                                    namedtuple(Location, Get(json_venue, "location")),
                                 generalInfo |->
                                    namedtuple(Venue_GeneralInfo,
                                               Get(json_venue, "generalInfo")),
                                 boxOfficeInfo |->
                                    namedtuple(Venue_BoxOfficeInfo,
                                               Get(json_venue, "boxOfficeInfo")),
                                 accessibleSeatingDetail |->
                                    Ok(Get(json_venue, "accessibleSeatingDetail"))],
                                <<"venue_id", "city", "state", "country", "address",
                                  "location", "generalInfo", "boxOfficeInfo",
                                  "accessibleSeatingDetail">>)))))),
        [images |-> images_of(json_venue),
         markets |-> IF Truthy(Get(json_venue, "markets"))
                     THEN namedtuples(Venue_Market, json_venue.markets) ELSE Ok(None),
         dmas |-> IF Truthy(Get(json_venue, "dmas"))
                  THEN namedtuples(Venue_DMA, json_venue.dmas) ELSE Ok(None)],
        <<"images", "markets", "dmas">>,
        assign_links(json_venue, None))

\* Attraction.from_json
Attraction_from_json(json_obj) ==
    Object("Attraction",
           [images |-> images_of(json_obj),
            classifications |->
                IF Truthy(Get(json_obj, "classifications"))
                THEN ListOf([i \in DOMAIN json_obj.classifications |->
                                Classification_from_json(json_obj.classifications[i])])
                ELSE Ok(None)],
           <<"images", "classifications">>,
           [id |-> Get(json_obj, "id"),
            name |-> Get(json_obj, "name"),
            url |-> Get(json_obj, "url"),
            test |-> Get(json_obj, "test"),
            links |-> assign_links(json_obj, None)])

\* json_event.get('_embedded', {}).get(key)
Event_embedded(json_event, key) ==
    IF HasKey(json_event, "_embedded") THEN Get(json_event._embedded, key) ELSE None

\* Event.from_json
Event_from_json(json_event) ==
    Object("Event",
           [promoter |-> namedtuple(Event_Promoter, Get(json_event, "promoter")),
            dates |-> Dates_from_json(Get(json_event, "dates")),
            sales |-> IF Truthy(Get(json_event, "sales"))
                      THEN Sales_from_json(json_event.sales) ELSE Ok(None),
            images |-> images_of(json_event),
            place |-> IF Truthy(Get(json_event, "place"))
                      THEN Place_from_json(json_event.place) ELSE Ok(None),
            price_ranges |->
                IF Truthy(Get(json_event, "priceRanges"))
                THEN namedtuples(Event_Price, json_event.priceRanges) ELSE Ok(None),
            classifications |->
                IF Truthy(Get(json_event, "classifications"))
                THEN ListOf([i \in DOMAIN json_event.classifications |->
                        EventClassification_from_json(json_event.classifications[i])])
                ELSE Ok(None),
            venues |->
                IF Truthy(Event_embedded(json_event, "venues"))
                THEN ListOf([i \in DOMAIN json_event._embedded.venues |->
                                Venue_from_json(json_event._embedded.venues[i])])
                ELSE Ok(None),
            attractions |->
                IF Truthy(Event_embedded(json_event, "attractions"))
                THEN ListOf([i \in DOMAIN json_event._embedded.attractions |->
                                Attraction_from_json(json_event._embedded.attractions[i])])
                ELSE Ok(None)],
           <<"promoter", "dates", "sales", "images", "place", "price_ranges",
             "classifications", "venues", "attractions">>,
           [name |-> Get(json_event, "name"),
            distance |-> Get(json_event, "distance"),
            units |-> Get(json_event, "units"),
            locale |-> Get(json_event, "locale"),
            description |-> Get(json_event, "description"),
            url |-> Get(json_event, "url"),
            test |-> Get(json_event, "test"),
            info |-> Get(json_event, "info"),
            id |-> Get(json_event, "id"),
            additional_info |-> None,
            please_note |-> None,
            links |-> assign_links(json_event, None)])

(***************************************************************************)
(* class Page(list)                                                        *)
(***************************************************************************)
\* Page.__init__, lines 276-285: the entities decoded, or the exception a decoder
\* raised
Page_items(embedded) ==
    IF HasKey(embedded, "events")
    THEN ListOf([i \in DOMAIN embedded.events |-> Event_from_json(embedded.events[i])])
    ELSE IF HasKey(embedded, "venues")
    THEN ListOf([i \in DOMAIN embedded.venues |-> Venue_from_json(embedded.venues[i])])
    ELSE IF HasKey(embedded, "attractions")
    THEN ListOf([i \in DOMAIN embedded.attractions |->
                    Attraction_from_json(embedded.attractions[i])])
    ELSE IF HasKey(embedded, "classifications")
    THEN ListOf([i \in DOMAIN embedded.classifications |->
                    Classification_from_json(embedded.classifications[i])])
    ELSE Ok(<<>>)

\* Page.__init__, lines 287-288: the entities appended to the page
Page_append(page, items) ==
    IF ~items.ok THEN items
    ELSE [ok |-> TRUE, page |-> [page EXCEPT !.items = items.val]]

\* Page.__init__: the metadata, the two raw links, and the decoded entities; or the
\* exception a decoder raised
Page_init(number, size, total_elements, total_pages, link_self, link_next_raw, embedded) ==
    Page_append([number |-> number,
                 size |-> size,
                 total_elements |-> total_elements,
                 total_pages |-> total_pages,
                 _link_self |-> link_self,
                 _link_next |-> link_next_raw,
                 items |-> <<>>],
                Page_items(embedded))

\* Page.link_next: "{}{}".format(ApiClient.base_url, self._link_next).replace('{&sort}', '')
link_next(page) ==
    str_replace(base_url \o format_value(page._link_next), SortTemplate, <<>>)

\* Page.link_self
link_self(page) == base_url \o format_value(page._link_self)

\* the lists of a list, one after the other
RECURSIVE Flatten(_)
Flatten(lists) == IF lists = <<>> THEN <<>> ELSE Head(lists) \o Flatten(Tail(lists))

\* Page.from_json, lines 102-107: object_models[k].from_json(obj)
object_models == {"events", "venues", "attractions", "classifications"}

object_from_json(k, obj) ==
    CASE k = "events" -> Event_from_json(obj)
      [] k = "venues" -> Venue_from_json(obj)
      [] k = "attractions" -> Attraction_from_json(obj)
      [] k = "classifications" -> Classification_from_json(obj)

\* Page.from_json, lines 104-107: `pg += [...]` for each key of `embedded`, the
\* keys taken in `order`
Page_extend(pg, lists) ==
    IF ~AllOk(lists) THEN FirstRaised(lists, [i \in DOMAIN lists |-> i])
    ELSE Ok([pg EXCEPT !.items = Flatten([i \in DOMAIN lists |-> lists[i].val])])

\* Page.from_json (ticketpy.model), `order` being the order of the keys of
\* json_obj['_embedded'], as embedded.items() yields them
Page_from_json(json_obj, order) ==
    IF ~HasKey(json_obj, "page") THEN Raise("KeyError")
    ELSE IF ~({"number", "size", "totalPages", "totalElements"}
                 \subseteq DOMAIN json_obj.page)
    THEN Raise("KeyError")
    ELSE Page_extend(
            [number |-> json_obj.page.number,
             size |-> json_obj.page.size,
             total_pages |-> json_obj.page.totalPages,
             total_elements |-> json_obj.page.totalElements,
             links |-> assign_links(json_obj, root_url),
             items |-> <<>>],
            IF ~Truthy(Get(json_obj, "_embedded")) THEN <<>>
            ELSE [i \in DOMAIN order |->
                    IF order[i] \in object_models
                    THEN ListOf([j \in DOMAIN json_obj._embedded[order[i]] |->
                            object_from_json(order[i], json_obj._embedded[order[i]][j])])
                    ELSE Ok(<<>>)])

(***************************************************************************)
(* class PageIterator                                                      *)
(***************************************************************************)
\* __page with kwargs['_embedded'] in the place of kwargs.get('_embedded', {})
PageIterator_page_indexing(kwargs) ==
    IF ~HasKey(kwargs, "page") \/ ~HasKey(kwargs, "_links")
    THEN [ok |-> FALSE, exc |-> "KeyError"]
    ELSE LET page == kwargs.page
             links == kwargs._links
             links_next == IF ~HasKey(links, "next") THEN None ELSE links.next.href
         IN IF \/ ~({"number", "size", "totalElements", "totalPages"} \subseteq DOMAIN page)
               \/ ~HasKey(links, "self")
               \/ ~HasKey(kwargs, "_embedded")
            THEN [ok |-> FALSE, exc |-> "KeyError"]
            ELSE Page_init(page.number, page.size, page.totalElements,
                           page.totalPages, links.self.href, links_next,
                           kwargs._embedded)

\* PageIterator.__page: a Page from a response body, or the KeyError of a missing
\* key, or the exception of a decoder
PageIterator_page(kwargs) ==
    IF ~HasKey(kwargs, "page") \/ ~HasKey(kwargs, "_links")
    THEN [ok |-> FALSE, exc |-> "KeyError"]
    ELSE LET page == kwargs.page
             links == kwargs._links
             links_next == IF ~HasKey(links, "next") THEN None ELSE links.next.href
         IN IF \/ ~({"number", "size", "totalElements", "totalPages"} \subseteq DOMAIN page)
               \/ ~HasKey(links, "self")
            THEN [ok |-> FALSE, exc |-> "KeyError"]
            ELSE Page_init(page.number, page.size, page.totalElements,
                           page.totalPages, links.self.href, links_next,
                           IF HasKey(kwargs, "_embedded")
                           THEN kwargs._embedded ELSE EmptyDict)

\* PageIterator.__init__
PageIterator_init(page) ==
    [page |-> page,
     start_page |-> page.number,
     current_page |-> page.number,
     end_page |-> page.total_pages]

\* the first page is returned only if it has entities
first_page_pending_nonempty(pi) ==
    pi.page.number = pi.current_page /\ pi.page.items # <<>>

\* next(), line 233: the page held has not been returned yet
first_page_pending(pi) == pi.page.number = pi.current_page

\* the test of the comment above line 240, "Check for current>end"
out_of_pages_strict(pi) == pi.current_page > pi.end_page

\* next(), line 240: no page is left to request
out_of_pages(pi) == pi.current_page >= pi.end_page

\* next() makes an HTTP request exactly in this case
makes_request(pi) == ~first_page_pending(pi) /\ ~out_of_pages(pi)

\* next(), lines 248-256: the page decoded replaces the page held; without a 'next'
\* link current_page is set to end_page
page_fetched(pi, url, p) ==
    IF ~p.ok
    THEN [it |-> pi, outcome |-> p.exc, items |-> <<>>, reqs |-> 1, url |-> url]
    ELSE [it |-> IF link_next(p.page) = None
                 THEN [pi EXCEPT !.page = p.page, !.current_page = pi.end_page]
                 ELSE [pi EXCEPT !.page = p.page],
          outcome |-> "return", items |-> p.page.items, reqs |-> 1, url |-> url]

\* next() with `self.current_page += 1` moved below the request and the decoding
fetch_page_bumping_late(pi, r) ==
    IF r = TransportFailure
    THEN [it |-> pi, outcome |-> "RequestException",
          items |-> <<>>, reqs |-> 1, url |-> link_next(pi.page)]
    ELSE IF ~PageIterator_page(r).ok
    THEN page_fetched(pi, link_next(pi.page), PageIterator_page(r))
    ELSE page_fetched([pi EXCEPT !.current_page = @ + 1], link_next(pi.page),
                      PageIterator_page(r))

\* next(), lines 243-256: current_page is bumped, then the page is requested and decoded
fetch_page(pi, r) ==
    IF r = TransportFailure
    THEN [it |-> [pi EXCEPT !.current_page = @ + 1], outcome |-> "RequestException",
          items |-> <<>>, reqs |-> 1, url |-> link_next(pi.page)]
    ELSE page_fetched([pi EXCEPT !.current_page = @ + 1], link_next(pi.page),
                      PageIterator_page(r))

\* next() that rewinds to the start page when it runs out of pages
next_rewinding(pi, r) ==
    IF first_page_pending(pi)
    THEN [it |-> [pi EXCEPT !.current_page = @ + 1], outcome |-> "return",
          items |-> pi.page.items, reqs |-> 0, url |-> None]
    ELSE IF out_of_pages(pi)
    THEN [it |-> [pi EXCEPT !.current_page = pi.start_page],
          outcome |-> "StopIteration", items |-> <<>>, reqs |-> 0, url |-> None]
    ELSE fetch_page(pi, r)

\* PageIterator.next, given the answer `r` to the request it makes, if it makes one
next(pi, r) ==
    IF first_page_pending(pi)
    THEN [it |-> [pi EXCEPT !.current_page = @ + 1], outcome |-> "return",
          items |-> pi.page.items, reqs |-> 0, url |-> None]
    ELSE IF out_of_pages(pi)
    THEN [it |-> pi, outcome |-> "StopIteration", items |-> <<>>, reqs |-> 0, url |-> None]
    ELSE fetch_page(pi, r)

\* the page requested, as a server that keeps to its first answer serves it: a full
\* page, with a 'next' link unless it is the last one
ConsecutivePage(pi) ==
    PageBody(pi.current_page, pi.page.size, pi.end_page,
             IF pi.current_page + 1 < pi.end_page THEN HrefNext ELSE None,
             pi.page.size)

\* the answers the server may give to the request next() makes, if it makes one.
\* A search with the default page size is served consecutive pages; any other
\* search gets whatever the server chooses.
Responses(pi) ==
    IF ~makes_request(pi) THEN {NoResponse}
    ELSE IF pi.page.size = DefaultSize THEN {ConsecutivePage(pi)}
    ELSE NextResponses(pi.current_page, pi.page.size, pi.end_page)

\* what kind of answer a response is
Kind(r) ==
    IF r = NoResponse THEN "none"
    ELSE IF r = TransportFailure THEN "transport"
    ELSE IF HasKey(r, "errors") THEN "errors"
    ELSE IF HasKey(r, "fault") THEN "fault"
    ELSE "page"

\* the ids of the entities the server put in a response, in the server's order
ServedIds(r) ==
    IF Kind(r) = "page" /\ HasKey(r, "_embedded")
    THEN [i \in 1..Len(r._embedded.events) |-> r._embedded.events[i].id]
    ELSE <<>>

\* the page number a response reports, if it is a page
ServedNumber(r) == IF Kind(r) = "page" THEN <<r.page.number>> ELSE <<>>

\* a call in progress: the iterator, the items gathered, the requests made and the
\* pages next() returned, whether next() was called and whether it raised
\* StopIteration; and of the server's answers, the page numbers and the ids served,
\* whether each was the page requested, and the kind of the last one; and whether
\* each request was made to a 'next' link the server had sent
Started(pi) ==
    [it |-> pi, outcome |-> "running", items |-> <<>>, reqs |-> 0, pages |-> 0,
     called |-> FALSE, stopped |-> FALSE,
     numbers |-> <<>>, served |-> <<>>, honest |-> TRUE, answer |-> "none",
     linked |-> TRUE]

\* limit() with `all_items = self.next()` in the place of `all_items += self.next()`
Added_keeping_last(acc, r, s) ==
    [it |-> s.it,
     outcome |-> s.outcome,
     items |-> IF s.outcome = "return" THEN s.items ELSE acc.items,
     reqs |-> acc.reqs + s.reqs,
     pages |-> IF s.outcome = "return" THEN acc.pages + 1 ELSE acc.pages,
     called |-> TRUE,
     stopped |-> s.outcome = "StopIteration",
     numbers |-> acc.numbers \o ServedNumber(r),
     served |-> acc.served \o ServedIds(r),
     honest |-> /\ acc.honest
                /\ s.reqs = 1 =>
                     /\ Kind(r) = "page"
                     /\ r.page.number = acc.it.current_page,
     answer |-> IF s.reqs = 1 THEN Kind(r) ELSE acc.answer,
     linked |-> acc.linked /\ (s.reqs = 1 => acc.it.page._link_next # None)]

\* the result `s` of a call of next(), added to the call in progress
Added(acc, r, s) ==
    [it |-> s.it,
     outcome |-> s.outcome,
     items |-> IF s.outcome = "return" THEN acc.items \o s.items ELSE acc.items,
     reqs |-> acc.reqs + s.reqs,
     pages |-> IF s.outcome = "return" THEN acc.pages + 1 ELSE acc.pages,
     called |-> TRUE,
     stopped |-> s.outcome = "StopIteration",
     numbers |-> acc.numbers \o ServedNumber(r),
     served |-> acc.served \o ServedIds(r),
     honest |-> /\ acc.honest
                /\ s.reqs = 1 =>
                     /\ Kind(r) = "page"
                     /\ r.page.number = acc.it.current_page,
     answer |-> IF s.reqs = 1 THEN Kind(r) ELSE acc.answer,
     linked |-> acc.linked /\ (s.reqs = 1 => acc.it.page._link_next # None)]

\* one call of next() inside limit() or all(), added to the call in progress
Advance(acc, r) == Added(acc, r, next(acc.it, r))

\* the call returns its list, or an exception leaves it and no list is returned
Returned(acc) == [acc EXCEPT !.outcome = "return"]
Raised(acc) == [acc EXCEPT !.items = <<>>]

\* the loop of limit() without its try/except, as in ticketpy/ticketpy.py, lines
\* 697-700: StopIteration leaves limit() like any other exception
RECURSIVE limit_loop_uncaught(_, _)
limit_loop_uncaught(acc, i) ==
    IF i = 0 THEN {Returned(acc)}
    ELSE UNION { IF a.outcome = "return" THEN limit_loop_uncaught(a, i - 1)
                 ELSE {Raised(a)}
                 : a \in { Advance(acc, r) : r \in Responses(acc.it) } }

\* limit(), lines 192-198: `for i in range(0, max_pages)`, with i rounds left.
\* StopIteration ends the loop; any other exception leaves limit().
RECURSIVE limit_loop(_, _)
limit_loop(acc, i) ==
    IF i = 0 THEN {Returned(acc)}
    ELSE UNION { IF a.outcome = "return" THEN limit_loop(a, i - 1)
                 ELSE IF a.outcome = "StopIteration" THEN {Returned(a)}
                 ELSE {Raised(a)}
                 : a \in { Advance(acc, r) : r \in Responses(acc.it) } }

\* PageIterator.all: [i for item_list in self for i in item_list]
RECURSIVE all_loop(_)
all_loop(acc) ==
    UNION { IF a.outcome = "return" THEN all_loop(a)
            ELSE IF a.outcome = "StopIteration" THEN {Returned(a)}
            ELSE {Raised(a)}
            : a \in { Advance(acc, r) : r \in Responses(acc.it) } }

all(pi) == all_loop(Started(pi))

\* PageIterator.limit: max_pages is {n} for the integer n, and {} for None
limit(pi, max_pages) ==
    IF max_pages = {} THEN all(pi)
    ELSE limit_loop(Started(pi), CHOOSE n \in max_pages : TRUE)

\* a single call of next() by the caller
next_call(pi) == { Advance(Started(pi), r) : r \in Responses(pi) }

\* def limit(self, max_pages=10): the value of max_pages when limit() is given none
limit_default == 10

\* what the class PageIterator defines, and the fields __init__ sets
PageIterator_attributes ==
    {"api_client", "page", "start_page", "current_page", "end_page",
     "__init__", "__iter__", "limit", "all", "next", "__next__"}

\* pi.<name>() with no argument: AttributeError when pi has no such attribute
call_method(pi, name) ==
    IF name \notin PageIterator_attributes
    THEN {[Started(pi) EXCEPT !.outcome = "AttributeError"]}
    ELSE IF name \in {"next", "__next__"} THEN next_call(pi)
    ELSE IF name = "all" THEN all(pi)
    ELSE IF name = "limit" THEN limit(pi, {limit_default})
    ELSE {[Started(pi) EXCEPT !.outcome = "TypeError"]}

(***************************************************************************)
(* ticketpy.query: class ClassificationQuery                               *)
(***************************************************************************)
\* Classification.parse_obj: the classification decoded from a response body
parse_obj(r_json) == Classification_from_json(r_json)

\* BaseQuery.by_id, given the body of the response to its request
by_id(r_json) == parse_obj(r_json)

\* genre_by_id, lines 232-236: `for genre in resp.segment.genres` binds the very name
\* that is returned, so that after the loop it holds the last genre of the list
genre_loop(genres, genre_id) ==
    IF Len(genres) = 0 THEN Ok(None)
    ELSE Ok(genres[Len(genres)])

\* ClassificationQuery.genre_by_id, given the classification by_id returned
genre_of(resp, genre_id) ==
    IF ~resp.ok THEN resp
    ELSE IF Truthy(resp.val.segment) THEN genre_loop(resp.val.segment.genres, genre_id)
    ELSE Ok(None)

\* ClassificationQuery.genre_by_id, given the body of the response to its request
genre_by_id(r_json, genre_id) == genre_of(by_id(r_json), genre_id)

(***************************************************************************)
(* class ApiClient                                                         *)
(***************************************************************************)
\* the values of search parameters, by their Python type
PyStr(chars) == [str |-> chars]
PyInt(n) == [int |-> n]
PyBool(b) == [bool |-> b]

Yes == <<"y", "e", "s">>
No == <<"n", "o">>
Only == <<"o", "n", "l", "y">>

\* str.lower(), one character
lower_char(c) ==
    CASE c = "Y" -> "y" [] c = "E" -> "e" [] c = "S" -> "s"
      [] c = "N" -> "n" [] c = "O" -> "o" [] c = "L" -> "l"
      [] OTHER -> c

\* str.lower()
lower(chars) == [i \in 1..Len(chars) |-> lower_char(chars[i])]

\* str(n) of a natural number
RECURSIVE str_int(_)
str_int(n) ==
    IF n < 10 THEN <<DecimalDigits[n + 1]>>
    ELSE str_int(n \div 10) \o <<DecimalDigits[(n % 10) + 1]>>

\* str(v)
str(v) ==
    IF HasKey(v, "int") THEN PyStr(str_int(v.int))
    ELSE IF HasKey(v, "bool")
         THEN PyStr(IF v.bool THEN <<"T", "r", "u", "e">> ELSE <<"F", "a", "l", "s", "e">>)
    ELSE v

\* ApiClient.__yes_no_only: no str result when s has no lower()
yes_no_only(s) ==
    IF s = PyStr(Yes) \/ s = PyStr(No) \/ s = PyStr(Only) THEN [ok |-> TRUE, val |-> s]
    ELSE IF s = PyBool(TRUE) \/ s = PyInt(1) THEN [ok |-> TRUE, val |-> PyStr(Yes)]
    ELSE IF s = PyBool(FALSE) \/ s = PyInt(0) THEN [ok |-> TRUE, val |-> PyStr(No)]
    ELSE IF HasKey(s, "str") THEN [ok |-> TRUE, val |-> PyStr(lower(s.str))]
    ELSE [ok |-> FALSE, exc |-> "AttributeError"]

\* ApiClient.url, and the URL of a search method: "{url}/{method}.{response_type}"
ApiClient_url ==
    base_url \o <<"/", "d", "i", "s", "c", "o", "v", "e", "r", "y", "/">> \o <<"v", "2">>

Methods ==
    {<<"e", "v", "e", "n", "t", "s">>,
     <<"v", "e", "n", "u", "e", "s">>,
     <<"a", "t", "t", "r", "a", "c", "t", "i", "o", "n", "s">>,
     <<"c", "l", "a", "s", "s", "i", "f", "i", "c", "a", "t", "i", "o", "n", "s">>}

Events == <<"e", "v", "e", "n", "t", "s">>

search_url(method) ==
    ApiClient_url \o <<"/">> \o method \o <<".">> \o <<"j", "s", "o", "n">>

\* ApiClient.api_key
api_key == [apikey |-> PyStr(<<"k", "e", "y">>)]

\* _search, lines 97-106: the parameters of the request, or the exception of a cast
search_params(kwargs) ==
    LET given == { k \in DOMAIN kwargs : kwargs[k] # None }
        flags == given \cap {"includeTBA", "includeTBD", "includeTest"}
        casts == given \cap {"size", "radius", "marketId"}
    IN IF \E k \in flags : ~yes_no_only(kwargs[k]).ok
       THEN [ok |-> FALSE, exc |-> "AttributeError"]
       ELSE [ok |-> TRUE,
             params |->
                [k \in given \cup {"apikey"} |->
                    IF k = "apikey" THEN api_key.apikey
                    ELSE IF k \in flags THEN yes_no_only(kwargs[k]).val
                    ELSE IF k \in casts THEN str(kwargs[k])
                    ELSE kwargs[k]]]

\* an ApiException that keeps the parameters as they were sent
ApiException_init_as_sent(url, params, response) ==
    [type |-> "ApiException",
     url |-> url,
     params |-> params,
     errors |-> response.errors]

\* ApiException.__init__
ApiException_init(url, params, response) ==
    [type |-> "ApiException",
     url |-> url,
     params |-> DelKey(params, "apikey"),
     errors |-> response.errors]

\* no request was made
NoRequest == [url |-> None, params |-> None]

\* ApiClient._search, given the server's answer: what it returns or raises, and the
\* request it made
ApiClient_search(method, kwargs, response) ==
    IF method \notin Methods
    THEN [outcome |-> "ValueError", exc |-> [type |-> "ValueError"], request |-> NoRequest]
    ELSE LET sp == search_params(kwargs)
         IN IF ~sp.ok
            THEN [outcome |-> sp.exc, exc |-> [type |-> sp.exc], request |-> NoRequest]
            ELSE LET request == [url |-> search_url(method), params |-> sp.params]
                 IN IF response = TransportFailure
                    THEN [outcome |-> "RequestException",
                          exc |-> [type |-> "RequestException"], request |-> request]
                    ELSE IF HasKey(response, "errors")
                    THEN [outcome |-> "ApiException",
                          exc |-> ApiException_init(request.url, request.params, response),
                          request |-> request]
                    ELSE LET p == PageIterator_page(response)
                         IN IF p.ok
                            THEN [outcome |-> "return", it |-> PageIterator_init(p.page),
                                  request |-> request]
                            ELSE [outcome |-> p.exc, exc |-> [type |-> p.exc],
                                  request |-> request]

(***************************************************************************)
(* The state machine.                                                      *)
(***************************************************************************)
\* the ids of a list of entities
ItemIds(items) == [i \in DOMAIN items |-> items[i].id]

\* fresh: next() has not been called; stopped: next() has raised StopIteration;
\* requests, pages: the next-page requests made and the pages next() has returned;
\* first: the ids of the first page; ids: the ids the calls have returned, in order;
\* served: the ids the server has sent in answer to next-page requests;
\* consecutive: each request went to a 'next' link and was answered with the page
\* after the one before
NoHist ==
    [fresh |-> TRUE, stopped |-> FALSE, requests |-> 0, pages |-> 0,
     first |-> <<>>, ids |-> <<>>, served |-> <<>>, consecutive |-> TRUE]

NoCall ==
    [op |-> "none", max_pages |-> {}, pre |-> None, pre_hist |-> NoHist,
     outcome |-> "none", items |-> <<>>, reqs |-> 0, pages |-> 0,
     numbers |-> <<>>, served |-> <<>>, honest |-> TRUE, answer |-> "none",
     exc |-> None]

Init ==
    /\ phase = "new"
    /\ it = None
    /\ hist = NoHist
    /\ last = NoCall

\* ApiClient._search(method, size=size): the first request, and the iterator built
\* from its answer.  The model follows one iterator: a search is made while none exists.
Search ==
    /\ phase # "iter"
    /\ \E size \in PageSizes :
      \E r \in SearchResponses(size) \cup {TransportFailure} :
        LET kwargs == [size |-> PyInt(size)]
            s == ApiClient_search(Events, kwargs, r)
        IN /\ phase' = IF s.outcome = "return" THEN "iter" ELSE "failed"
           /\ it' = IF s.outcome = "return" THEN s.it ELSE None
           /\ hist' = IF s.outcome = "return"
                      THEN [NoHist EXCEPT !.first = ItemIds(s.it.page.items)]
                      ELSE NoHist
           /\ last' = [NoCall EXCEPT !.op = "search", !.outcome = s.outcome,
                                     !.answer = Kind(r), !.reqs = 1,
                                     !.exc = IF s.outcome = "return" THEN None ELSE s.exc]

\* ApiClient._search(method) with no size: the server answers with page 0 of any
\* number of pages of DefaultSize entities
SearchDefault ==
    /\ phase # "iter"
    /\ \E total \in DefaultTotals :
        LET r == PageBody(0, DefaultSize, total,
                          IF total > 1 THEN HrefNext ELSE None, DefaultSize)
            s == ApiClient_search(Events, EmptyDict, r)
        IN /\ phase' = "iter"
           /\ it' = s.it
           /\ hist' = [NoHist EXCEPT !.first = ItemIds(s.it.page.items)]
           /\ last' = [NoCall EXCEPT !.op = "search", !.outcome = s.outcome,
                                     !.answer = Kind(r), !.reqs = 1]

\* the effect of a finished call of next(), limit() or all() on the state
Finish(op, max_pages, res) ==
    /\ phase' = phase
    /\ it' = res.it
    /\ hist' = [fresh |-> hist.fresh /\ ~res.called,
                stopped |-> hist.stopped \/ res.stopped,
                requests |-> hist.requests + res.reqs,
                pages |-> hist.pages + res.pages,
                first |-> hist.first,
                ids |-> hist.ids \o ItemIds(res.items),
                served |-> hist.served \o res.served,
                consecutive |-> hist.consecutive /\ res.honest /\ res.linked]
    /\ last' = [op |-> op, max_pages |-> max_pages, pre |-> it, pre_hist |-> hist,
                outcome |-> res.outcome, items |-> res.items, reqs |-> res.reqs,
                pages |-> res.pages, numbers |-> res.numbers,
                served |-> res.served, honest |-> res.honest,
                answer |-> res.answer, exc |-> None]

CallNext ==
    /\ phase = "iter"
    /\ \E res \in next_call(it) : Finish("next", {}, res)

CallLimit ==
    /\ phase = "iter"
    /\ \E n \in LimitArgs :
         \E res \in limit(it, {n}) : Finish("limit", {n}, res)

CallLimitNone ==
    /\ phase = "iter"
    /\ \E res \in limit(it, {}) : Finish("limit", {}, res)

CallAll ==
    /\ phase = "iter"
    /\ \E res \in all(it) : Finish("all", {}, res)

Next ==
    \/ Search
    \/ CallNext
    \/ CallLimit
    \/ CallLimitNone
    \/ CallAll

Spec == Init /\ [][Next]_vars

\* limit() with no argument
CallLimitDefault ==
    /\ phase = "iter"
    /\ \E res \in call_method(it, "limit") : Finish("limit()", {limit_default}, res)

\* one(), as the tests call it on the result of a search
CallOne ==
    /\ phase = "iter"
    /\ \E res \in call_method(it, "one") : Finish("one()", {}, res)

\* a search with the default page size, and the calls on its result
NextDefault ==
    \/ SearchDefault
    \/ CallNext
    \/ CallLimitDefault
    \/ CallOne

SpecDefault == Init /\ [][NextDefault]_vars

\* the keyword arguments a caller gives to a search: each a value or None
SearchKwargs ==
    [keyword : {None, PyStr(<<"a">>)},
     size : {None, PyInt(7), PyStr(<<"7">>)},
     radius : {None, PyInt(10)},
     includeTBA : {None, PyBool(TRUE), PyStr(<<"O", "n", "l", "y">>), PyInt(5)}]

\* ApiClient._search(method, **kwargs), for any method and arguments, and any answer
SearchAny ==
    \E method \in Methods \cup {<<"x">>} :
      \E kwargs \in SearchKwargs :
        \E r \in {ErrorsBody, FaultBody, TransportFailure, PageBody(0, 7, 1, None, 0)} :
          LET s == ApiClient_search(method, kwargs, r)
          IN /\ phase' = IF s.outcome = "return" THEN "iter" ELSE "failed"
             /\ it' = IF s.outcome = "return" THEN s.it ELSE None
             /\ hist' = NoHist
             /\ last' = ("request" :> s.request) @@ ("kwargs" :> kwargs) @@
                        [NoCall EXCEPT !.op = "search", !.outcome = s.outcome,
                                       !.answer = Kind(r),
                                       !.reqs = IF s.request = NoRequest THEN 0 ELSE 1,
                                       !.exc = IF s.outcome = "return" THEN None ELSE s.exc]

NextSearch == SearchAny

SpecSearch == Init /\ [][NextSearch]_vars

\* hrefs as the server writes them: relative, with and without a template, and
\* absolute
HrefAlphabet == {"/", "a", "{", "}"}

HrefPage == <<"/", "e", "?", "p", "{", "&", "p", "a", "g", "e", "}">>
HrefTwo == <<"/", "e", "{", "&", "p", "}", "&", "s", "{", "&", "x", "}">>
HrefAbsolute == <<"h", "t", "t", "p", "s", ":", "/", "/", "h", "/", "e">>
HrefAbsoluteNext ==
    <<"h", "t", "t", "p", "s", ":", "/", "/", "h", "/", "e", "{", "&", "s", "o", "r", "t", "}">>

LinkHrefs ==
    UNION { [1..n -> HrefAlphabet] : n \in 1..MaxHrefLen }
        \cup {HrefNext, HrefSelf, HrefPage, HrefTwo, HrefAbsolute, HrefAbsoluteNext}

\* the page of a response whose links are `href`
LinkedPage(href) ==
    PageIterator_page(PageBody(0, DefaultSize, 1, href, 0)).page

\* one href through each place that makes a link of it: the links of an entity and
\* of a page (assign_links), Page.link_next and Page.link_self
NormalizeLink ==
    /\ \E href \in LinkHrefs :
         last' = [op |-> "links",
                  href |-> href,
                  entity |-> assign_links([_links |-> [self |-> [href |-> href]]], None).self,
                  page |-> assign_links([_links |-> [next |-> [href |-> href]]], root_url).next,
                  link_next |-> link_next(LinkedPage(href)),
                  link_self |-> link_self([LinkedPage(href) EXCEPT !._link_self = href])]
    /\ UNCHANGED <<phase, it, hist>>

NextLinks == NormalizeLink

SpecLinks == Init /\ [][NextLinks]_vars

\* the keys of the 'page' block of a response
PageKeys == {"number", "size", "totalElements", "totalPages"}

\* the 'page' block of page 0 of 1, with the keys `keys` only
PageBlock(keys) ==
    [k \in keys |->
        CASE k = "number" -> 0
          [] k = "size" -> DefaultSize
          [] k = "totalElements" -> 1
          [] k = "totalPages" -> 1]

\* one entity of each resource type, as the server writes it
EmbeddedEntity(k) ==
    CASE k = "events" -> EntityJson(0, 1)
      [] k = "venues" -> [id |-> <<0, 2>>, name |-> <<"V">>]
      [] k = "attractions" -> [id |-> <<0, 3>>, name |-> <<"A">>]
      [] k = "classifications" -> [segment |-> [id |-> <<0, 4>>, name |-> <<"S">>]]

\* the orders in which an '_embedded' block may hold its keys: no block, one key,
\* or two keys either way round
EmbeddedOrders ==
    {<<>>} \cup { <<k>> : k \in object_models }
           \cup { o \in object_models \X object_models : o[1] # o[2] }

\* a response with the 'page' block `block` (none when block is None), a 'next' link
\* or none, and an '_embedded' block with the keys of `order` (none for no key)
ResponseBody(block, href, order) ==
    ("_links" :> LinksJson(href))
    @@ (IF block = None THEN EmptyDict ELSE ("page" :> block))
    @@ (IF order = <<>> THEN EmptyDict
        ELSE ("_embedded" :>
                [k \in { order[i] : i \in DOMAIN order } |-> <<EmbeddedEntity(k)>>]))

\* a Page made of a response body by each of the two constructors: __page and
\* Page.__init__ of ticketpy.client, and Page.from_json of ticketpy.model
BuildPage ==
    /\ \E keys \in SUBSET PageKeys, absent \in BOOLEAN,
          href \in {None, HrefNext}, order \in EmbeddedOrders :
         LET body == ResponseBody(IF absent /\ keys = {} THEN None ELSE PageBlock(keys),
                                  href, order)
         IN last' = [op |-> "page",
                     body |-> body,
                     order |-> order,
                     built |-> PageIterator_page(body),
                     from_json |-> Page_from_json(body, order)]
    /\ UNCHANGED <<phase, it, hist>>

NextPage == BuildPage

SpecPage == Init /\ [][NextPage]_vars

(***************************************************************************)
(* The dict a decoder was given, as the decoder leaves it when it returns: *)
(* _Util.namedtuple calls update_kwargs on the dict it is passed (line     *)
(* 655), which renames that dict's keys in place.                          *)
(***************************************************************************)
\* json_obj after _Util.namedtuple(model, json_obj): renamed, also when strptime
\* then raises
namedtuple_arg(json_obj) ==
    IF ~Truthy(json_obj) THEN json_obj
    ELSE IF update_kwargs(json_obj).ok THEN update_kwargs(json_obj).val
    ELSE rename_from(json_obj, 1)

\* obj after _Util.namedtuple(model, obj.get(k)) for each k of keys
After(obj, keys) ==
    [k \in DOMAIN obj |-> IF k \in keys THEN namedtuple_arg(obj[k]) ELSE obj[k]]

\* obj after [_Util.namedtuple(model, x) for x in obj.get(k)] for each k of keys
AfterEach(obj, keys) ==
    [k \in DOMAIN obj |->
       IF k \in keys THEN [i \in DOMAIN obj[k] |-> namedtuple_arg(obj[k][i])]
       ELSE obj[k]]

\* json_obj after Dates.from_json(json_obj)
Dates_arg(json_obj) == After(json_obj, {"start", "end", "access", "status"})

\* json_obj after Sales.from_json(json_obj)
Sales_arg(json_obj) == AfterEach(After(json_obj, {"public"}), {"presales"})

\* json_obj after Place.from_json(json_obj)
Place_arg(json_obj) ==
    After(json_obj, {"area", "address", "city", "state", "country", "location"})

\* json_venue after Venue.from_json(json_venue)
Venue_arg(json_venue) ==
    AfterEach(After(json_venue, {"city", "state", "country", "address", "location",
                                 "generalInfo", "boxOfficeInfo"}),
              {"images", "markets", "dmas"})

\* json_obj after Attraction.from_json(json_obj)
Attraction_arg(json_obj) == AfterEach(json_obj, {"images"})

\* json_event['_embedded'] after Event.from_json(json_event)
Event_embedded_arg(embedded) ==
    [k \in DOMAIN embedded |->
       IF k = "venues" THEN [i \in DOMAIN embedded[k] |-> Venue_arg(embedded[k][i])]
       ELSE IF k = "attractions"
       THEN [i \in DOMAIN embedded[k] |-> Attraction_arg(embedded[k][i])]
       ELSE embedded[k]]

\* json_event after Event.from_json(json_event)
Event_arg(json_event) ==
    [k \in DOMAIN json_event |->
       IF k = "promoter" THEN namedtuple_arg(json_event[k])
       ELSE IF k = "dates" THEN Dates_arg(json_event[k])
       ELSE IF k = "sales" /\ Truthy(json_event[k]) THEN Sales_arg(json_event[k])
       ELSE IF k \in {"images", "priceRanges"}
       THEN [i \in DOMAIN json_event[k] |-> namedtuple_arg(json_event[k][i])]
       ELSE IF k = "place" /\ Truthy(json_event[k]) THEN Place_arg(json_event[k])
       ELSE IF k = "_embedded" THEN Event_embedded_arg(json_event[k])
       ELSE json_event[k]]

\* an event as the server writes it, with every optional field
FullEvent ==
    [id |-> <<0, 1>>,
     name |-> <<"E">>,
     url |-> <<"/", "e">>,
     dates |-> [timezone |-> <<"UTC">>,
                start |-> [localDate |-> <<"2", "0", "1", "7">>, dateTBD |-> <<"F">>]],
     images |-> <<[url |-> <<"/", "i">>, ratio |-> <<"4", "_", "3">>]>>,
     priceRanges |-> <<[type |-> <<"s">>, currency |-> <<"USD">>,
                        min |-> <<1>>, max |-> <<2>>]>>,
     promoter |-> [id |-> <<"p">>, name |-> <<"P">>],
     sales |-> [public |-> [startTBD |-> <<"F">>]],
     place |-> [name |-> <<"L">>, address |-> [line1 |-> <<"1">>]],
     classifications |-> <<[primary |-> <<"T">>,
                            segment |-> [id |-> <<"s">>, name |-> <<"S">>]]>>,
     _embedded |-> [venues |-> <<[id |-> <<0, 2>>,
                                  name |-> <<"V">>,
                                  postalCode |-> <<"3">>,
                                  state |-> [stateCode |-> <<"GA">>, name |-> <<"G">>],
                                  address |-> [line1 |-> <<"1">>]]>>]]

\* the fields of an event a response may leave out
OptionalFields ==
    {"name", "url", "dates", "images", "priceRanges", "promoter", "sales", "place",
     "classifications", "_embedded"}

\* the event with the optional fields `keys` only; `named` tells whether the segment
\* of its classification has a 'name'
EventWith(keys, named) ==
    LET ev == [k \in keys \cup {"id"} |-> FullEvent[k]]
    IN IF "classifications" \in keys /\ ~named
       THEN [ev EXCEPT !.classifications[1].segment = [id |-> @.id]]
       ELSE ev

\* a field no decoder knows
UnknownField == "unknownField"

WithUnknown(obj) == obj @@ (UnknownField :> <<"x">>)

\* where an unknown field may be put: nowhere, in the entity, or in a value nested
\* in it
UnknownPlaces ==
    {"none", "event", "image", "priceRange", "state", "address", "dates.start"}

\* the JSON object holding the unknown field is there
HasPlace(ev, place) ==
    CASE place = "none" -> TRUE
      [] place = "event" -> TRUE
      [] place = "image" -> HasKey(ev, "images")
      [] place = "priceRange" -> HasKey(ev, "priceRanges")
      [] place = "state" -> HasKey(ev, "_embedded")
      [] place = "address" -> HasKey(ev, "_embedded")
      [] place = "dates.start" -> HasKey(ev, "dates")

\* the event with an unknown field added at `place`
UnknownAt(ev, place) ==
    CASE place = "none" -> ev
      [] place = "event" -> WithUnknown(ev)
      [] place = "image" -> [ev EXCEPT !.images[1] = WithUnknown(@)]
      [] place = "priceRange" -> [ev EXCEPT !.priceRanges[1] = WithUnknown(@)]
      [] place = "state" -> [ev EXCEPT !._embedded.venues[1].state = WithUnknown(@)]
      [] place = "address" -> [ev EXCEPT !._embedded.venues[1].address = WithUnknown(@)]
      [] place = "dates.start" -> [ev EXCEPT !.dates.start = WithUnknown(@)]

\* the events to decode: the optional fields given, whether the segment is named,
\* and the place of the unknown field
DecodeInputs ==
    { c \in [given : SUBSET OptionalFields, named : BOOLEAN, place : UnknownPlaces] :
        /\ HasPlace(EventWith(c.given, c.named), c.place)
        /\ "classifications" \notin c.given => c.named }

\* an event waits to be decoded
InitDecode ==
    /\ phase = "new"
    /\ it = None
    /\ hist = NoHist
    /\ \E c \in DecodeInputs :
         last = [op |-> "event", given |-> c.given, named |-> c.named, place |-> c.place]

\* Event.from_json of the event, and of the same event with one unknown field added;
\* and that event as the call leaves it
DecodeEvent ==
    /\ last.op = "event"
    /\ last' = [op |-> "decode",
                given |-> last.given,
                named |-> last.named,
                place |-> last.place,
                json |-> UnknownAt(EventWith(last.given, last.named), last.place),
                after |-> Event_arg(
                              UnknownAt(EventWith(last.given, last.named), last.place)),
                plain |-> Event_from_json(EventWith(last.given, last.named)),
                decoded |-> Event_from_json(
                                UnknownAt(EventWith(last.given, last.named), last.place))]
    /\ UNCHANGED <<phase, it, hist>>

NextDecode == DecodeEvent

SpecDecode == InitDecode /\ [][NextDecode]_vars

\* the two digits that write n
TwoChars(n) == <<DecimalDigits[(n \div 10) + 1], DecimalDigits[(n % 10) + 1]>>

\* "<year>-MM-DDTHH:00:00Z"
Stamp(year, month, day, hour) ==
    year \o <<"-">> \o TwoChars(month) \o <<"-">> \o TwoChars(day) \o <<"T">>
         \o TwoChars(hour) \o <<":", "0", "0", ":", "0", "0", "Z">>

\* the 'dateTime' values of a response: timestamps in the format, some of them of
\* no calendar day or hour, and strings not in the format
Timestamps ==
    { Stamp(y, mo, d, h) : y \in {<<"2", "0", "1", "7">>, <<"2", "0", "1", "6">>},
                           mo \in {0, 1, 2, 4, 12, 13},
                           d \in {0, 1, 28, 29, 30, 31, 32},
                           h \in {0, 23, 24} }
    \cup { <<"x">>,
           <<"2", "0", "1", "7", "-", "0", "1", "-", "0", "1">>,
           <<"2", "0", "1", "7", "-", "0", "1", "-", "0", "1", "T",
             "1", "0", ":", "0", "0", ":", "0", "0">>,
           <<"0", "1", "/", "0", "1", "/", "2", "0", "1", "7">> }

\* a 'dates' block waits to be decoded
InitDates ==
    /\ phase = "new"
    /\ it = None
    /\ hist = NoHist
    /\ \E t \in Timestamps : last = [op |-> "timestamp", timestamp |-> t]

\* Dates.from_json of {'start': {'dateTime': timestamp}}, with what strptime makes of
\* the timestamp
DecodeDates ==
    /\ last.op = "timestamp"
    /\ last' = [op |-> "dates",
                timestamp |-> last.timestamp,
                parsed |-> format_utc_timestamp(last.timestamp),
                decoded |-> Dates_from_json([start |-> [dateTime |-> last.timestamp]])]
    /\ UNCHANGED <<phase, it, hist>>

NextDates == DecodeDates

SpecDates == InitDates /\ [][NextDates]_vars

\* the most keys of a JSON object whose names are renamed
MaxKeys == 2

\* the key sets of JSON objects: API names of attr_map, and a name it does not hold
RECURSIVE KeySetsUpTo(_)
KeySetsUpTo(n) ==
    IF n = 0 THEN {{}}
    ELSE { ks \cup {k} : ks \in KeySetsUpTo(n - 1),
                         k \in Values(attr_map) \cup {UnknownField} }

KeySets == KeySetsUpTo(MaxKeys)

\* the keyword names in the order of attr_map, then the name it does not hold
KeywordOrder == [i \in DOMAIN attr_map |-> attr_map[i][1]] \o <<UnknownField>>

\* a JSON object waits to have its keys renamed
InitNames ==
    /\ phase = "new"
    /\ it = None
    /\ hist = NoHist
    /\ \E ks \in KeySets : last = [op |-> "keys", json |-> [k \in ks |-> <<k>>]]

\* _Util.update_kwargs of the JSON object, and the result sent back as search
\* parameters: through attr_map, and through BaseQuery.attr_map as _search_params
\* does
RenameKeys ==
    /\ last.op = "keys"
    /\ last' = [op |-> "names",
                json |-> last.json,
                renamed |-> rename_from(last.json, 1),
                back |-> search_params_of(attr_map, KeywordOrder,
                                          rename_from(last.json, 1)),
                query_back |-> search_params_of(BaseQuery_attr_map, KeywordOrder,
                                                rename_from(last.json, 1))]
    /\ UNCHANGED <<phase, it, hist>>

NextNames == RenameKeys

SpecNames == InitNames /\ [][NextNames]_vars

\* the ids of genres
GenreIds == {<<"g", "1">>, <<"g", "2">>, <<"g", "3">>}

\* the most genres in the segment of a response
MaxGenres == 3

\* the lists of genres a segment may embed
GenreLists ==
    UNION { [1..n -> { [id |-> g, name |-> <<"G">>] : g \in GenreIds }] : n \in 0..MaxGenres }

\* the bodies of the responses to a request for a classification: without a
\* segment, and with a segment that embeds a list of genres
ClassificationBodies ==
    { [primary |-> <<"T">>] }
    \cup { [primary |-> <<"T">>,
            segment |-> [id |-> <<"s">>, name |-> <<"S">>, _embedded |-> [genres |-> gs]]]
           : gs \in GenreLists }

\* a genre is asked for, and the response has arrived
InitGenre ==
    /\ phase = "new"
    /\ it = None
    /\ hist = NoHist
    /\ \E body \in ClassificationBodies, g \in GenreIds :
         last = [op |-> "by_id", body |-> body, genre_id |-> g]

\* classifications.genre_by_id(genre_id)
CallGenreById ==
    /\ last.op = "by_id"
    /\ last' = [op |-> "genre_by_id",
                body |-> last.body,
                genre_id |-> last.genre_id,
                result |-> genre_by_id(last.body, last.genre_id)]
    /\ UNCHANGED <<phase, it, hist>>

NextGenre == CallGenreById

SpecGenre == InitGenre /\ [][NextGenre]_vars

(***************************************************************************)
(* Properties.                                                             *)
(***************************************************************************)
\* the last call was a call on the iterator
OnIterator == last.op \in {"next", "limit", "all"}

\* the last call was limit(n) with an integer n
LimitN == last.op = "limit" /\ last.max_pages # {}
LimitArg == CHOOSE n \in last.max_pages : TRUE

Max(a, b) == IF a >= b THEN a ELSE b

\* C1: when the page held (already returned) carries no 'next' link, the following
\* next() makes no request and raises StopIteration, whatever total_pages says.
C1_NoNextLinkStops ==
    ( /\ last.op = "next"
      /\ ~first_page_pending(last.pre)
      /\ last.pre.page._link_next = None )
    => ( last.outcome = "StopIteration" /\ last.reqs = 0 )

\* C2: when the page held (already returned) has number * size >= 1000 and carries a
\* 'next' link, next() raises StopIteration and requests nothing.
C2_StopsAtDepthCeiling ==
    ( /\ last.op = "next"
      /\ ~first_page_pending(last.pre)
      /\ last.pre.page.number * last.pre.page.size >= 1000
      /\ last.pre.page._link_next # None )
    => ( last.outcome = "StopIteration" /\ last.reqs = 0 )

\* limit(N) on a fresh iterator whose first page reports total_pages < N, every
\* request having been answered with the page requested
C3_Case ==
    /\ LimitN
    /\ last.pre_hist.fresh
    /\ last.pre.page.total_pages < LimitArg
    /\ last.honest

C4_ErrorBodyRaisesApiException ==
    ( /\ last.op = "next"
      /\ last.answer \in {"errors", "fault"} )
    => ( last.outcome = "ApiException" /\ last.reqs = 1 )

\* C5: a search answered with an authentication fault raises ApiException carrying
\* the fault string and detail, and builds no iterator.
C5_FaultRaisesApiException ==
    ( /\ last.op = "search"
      /\ last.answer = "fault" )
    => ( /\ phase = "failed"
         /\ last.outcome = "ApiException"
         /\ last.exc.type = "ApiException"
         /\ HasKey(last.exc, "faultstring")
         /\ HasKey(last.exc, "detail") )

\* C6: the first next() on a new iterator returns the first page's entities and
\* makes no request, whatever the first page's number, total_pages and entities.
C6_FirstPageFirst ==
    ( /\ \/ last.op = "next"
         \/ LimitN /\ LimitArg = 1
      /\ last.pre_hist.fresh )
    => ( /\ last.outcome = "return"
         /\ last.items = last.pre.page.items
         /\ last.pages = 1
         /\ last.reqs = 0 )

\* the first next() on an iterator whose first page is page 2 of 0, with no entity
C6_Witness ==
    /\ last.op = "next"
    /\ last.pre_hist.fresh
    /\ last.pre.page.number = 2
    /\ last.pre.page.total_pages = 0
    /\ last.pre.page.items = <<>>
    /\ last.outcome = "return"

\* C7: an iterator whose first page reports total_pages = 1 never requests a next
\* page and returns one page at most; iterating it to the end returns exactly the
\* first page and then StopIteration.
C7_SinglePage ==
    ( phase = "iter" /\ it.end_page = 1 )
    => ( /\ hist.requests = 0
         /\ hist.pages <= 1
         /\ hist.stopped => hist.pages = 1
         /\ ( last.op = "all" /\ last.pre_hist.fresh )
              => ( /\ last.outcome = "return"
                   /\ last.pages = 1
                   /\ last.items = last.pre.page.items
                   /\ hist.stopped ) )

\* all() on a fresh iterator with total_pages = 1 returned its two entities
C7_Witness ==
    /\ phase = "iter"
    /\ it.end_page = 1
    /\ last.op = "all"
    /\ last.pre_hist.fresh
    /\ Len(last.items) = 2
    /\ hist.stopped

\* C8: Page.link_next is None exactly when the response carried no 'next' link.
C8_LinkNextNoneIffAbsent ==
    phase = "iter" =>
        ( link_next(it.page) = None <=> it.page._link_next = None )

\* C9: after all() on a new paged response, iterating the same object again visits
\* total_pages pages and yields the entities all() returned.
C9_ReiterationAfterAll ==
    [][ ( /\ phase = "iter"
          /\ last.op = "all"
          /\ last.outcome = "return"
          /\ last.pre_hist.fresh
          /\ last.honest
          /\ last'.op = "all"
          /\ last'.outcome = "return" )
        => ( /\ last'.pages = it.end_page
             /\ last'.items = last.items ) ]_vars

C11_LimitDefaultFivePages ==
    ( last.op = "limit()" /\ last.pre_hist.fresh )
    => ( /\ last.outcome = "return"
         /\ last.pages <= 5
         /\ last.pre.end_page >= 5 => Len(last.items) = 5 * DefaultSize )

\* C12: one() returns the entities of the first page and makes no request, however
\* often it is called.
C12_OneIsFirstPage ==
    last.op = "one()"
    => ( /\ last.outcome = "return"
         /\ last.reqs = 0
         /\ last.pre_hist.fresh => last.items = last.pre.page.items
         /\ it = last.pre )

\* C13: an ApiException raised by _search carries the URL of the request and the
\* parameters that were sent, each with the value sent, except 'apikey', which was
\* sent and which it does not carry; every argument the caller gave is among them.
C13_ExceptionRedactsKey ==
    ( last.op = "search" /\ last.outcome = "ApiException" )
    => ( /\ last.exc.url = last.request.url
         /\ HasKey(last.request.params, "apikey")
         /\ ~HasKey(last.exc.params, "apikey")
         /\ DOMAIN last.exc.params = DOMAIN last.request.params \ {"apikey"}
         /\ \A k \in DOMAIN last.exc.params :
                last.exc.params[k] = last.request.params[k]
         /\ \A k \in DOMAIN last.kwargs :
                last.kwargs[k] # None => HasKey(last.exc.params, k) )

\* a venues search with keyword, size 7 and includeTBA 'Only' was rejected: the
\* exception carries 'a', '7' and 'only'
C13_Witness ==
    /\ last.op = "search"
    /\ last.outcome = "ApiException"
    /\ last.exc.url = search_url(<<"v", "e", "n", "u", "e", "s">>)
    /\ DOMAIN last.exc.params = {"keyword", "size", "includeTBA"}
    /\ last.kwargs.size = PyInt(7)
    /\ last.exc.params.size = PyStr(<<"7">>)
    /\ last.exc.params.includeTBA = PyStr(Only)

\* a brace-delimited fragment: a '{', one character or more, and a '}'
HasTemplate(chars) ==
    \E i, j \in 1..Len(chars) : i + 1 < j /\ chars[i] = "{" /\ chars[j] = "}"

\* C14: of an href with a brace-delimited fragment, the link of the entity, the
\* link of the page and Page.link_next have none.
C14_NoBracesLeft ==
    ( last.op = "links" /\ HasTemplate(last.href) )
    => ( /\ ~HasTemplate(last.entity)
         /\ ~HasTemplate(last.page)
         /\ ~HasTemplate(last.link_next) )

\* an absolute href: scheme and host
IsAbsolute(chars) ==
    \/ StartsWith(chars, <<"h", "t", "t", "p", "s", ":", "/", "/">>)
    \/ StartsWith(chars, <<"h", "t", "t", "p", ":", "/", "/">>)

\* C15: each link made of an href is the href (less its templates) with the root
\* URL before it when the href is relative, and without when it is absolute.
C15_PrefixIffRelative ==
    last.op = "links"
    => LET root == IF IsAbsolute(last.href) THEN <<>> ELSE base_url
       IN /\ last.entity = root \o re_sub_braces(last.href)
          /\ last.page = root \o re_sub_braces(last.href)
          /\ last.link_next = root \o str_replace(last.href, SortTemplate, <<>>)
          /\ last.link_self = root \o last.href

\* the response lacks the 'page' block or one of its four keys
LacksMetadata(body) ==
    ~HasKey(body, "page") \/ ~(PageKeys \subseteq DOMAIN body.page)

\* C16: a Page made of a response that lacks the 'page' block, or one of number,
\* size, totalElements and totalPages in it, fails with MalformedResponse, by
\* either constructor.
C16_MissingMetadataIsMalformed ==
    ( last.op = "page" /\ LacksMetadata(last.body) )
    => ( /\ ~last.built.ok /\ last.built.exc = "MalformedResponse"
         /\ ~last.from_json.ok /\ last.from_json.exc = "MalformedResponse" )

\* C17: a Page made of a well-formed response without an '_embedded' block is made
\* without an exception and has no entity, by either constructor.
C17_NoEmbeddedIsEmptyPage ==
    ( last.op = "page" /\ ~LacksMetadata(last.body) /\ ~HasKey(last.body, "_embedded") )
    => ( /\ last.built.ok /\ last.built.page.items = <<>>
         /\ last.from_json.ok /\ last.from_json.val.items = <<>> )

C17_Witness ==
    /\ last.op = "page"
    /\ DOMAIN last.body = {"page", "_links"}
    /\ DOMAIN last.body.page = PageKeys
    /\ HasKey(last.body._links, "next")
    /\ last.built.ok
    /\ last.built.page.number = 0
    /\ last.built.page.total_pages = 1
    /\ last.built.page.items = <<>>
    /\ last.from_json.ok
    /\ last.from_json.val.items = <<>>

\* the entities are all of one class
Monomorphic(items) ==
    \A i, j \in DOMAIN items : items[i].__class__ = items[j].__class__

\* C18: the entities of a Page are all of one resource type, whatever keys the
\* '_embedded' block of the response holds, by either constructor.
C18_PageMonomorphic ==
    last.op = "page"
    => ( /\ last.built.ok => Monomorphic(last.built.page.items)
         /\ last.from_json.ok => Monomorphic(last.from_json.val.items) )

\* C19: an unknown field added to an event, or to a value nested in it, makes
\* Event.from_json neither fail nor give another result.
C19_UnknownFieldsIgnored ==
    ( last.op = "decode" /\ last.plain.ok )
    => ( last.decoded.ok /\ last.decoded.val = last.plain.val )

\* the attribute of an Event that holds the field `k` of its JSON object
EventAttribute(k) ==
    CASE k = "priceRanges" -> "price_ranges"
      [] k = "_embedded" -> "venues"
      [] OTHER -> k

\* C20: Event.from_json of an event without some of its optional fields, or whose
\* classification has a segment without 'name', returns an Event, and the
\* attribute of each absent field is None.
C20_MissingOptionalIsNone ==
    ( last.op = "decode" /\ last.place = "none" )
    => ( /\ last.plain.ok
         /\ \A k \in OptionalFields \ last.given :
                last.plain.val[EventAttribute(k)] = None )

\* C21: a 'dateTime' in the format decodes to the instant it writes, and one that
\* is not in the format makes decoding fail; it is never passed through as it came.
C21_DateTimeParsedOrError ==
    last.op = "dates"
    => IF last.parsed.ok
       THEN last.decoded.ok /\ last.decoded.val.start.date_time = last.parsed.val
       ELSE ~last.decoded.ok

\* no two keys of the table have one value
Injective(table) ==
    \A i, j \in DOMAIN table : table[i][2] = table[j][2] => i = j

\* C22: no two names of attr_map map to one API name; a JSON object renamed by
\* update_kwargs and sent back through attr_map has the keys and values it had; and
\* BaseQuery.attr_map maps each name it shares with attr_map to the same API name,
\* so that it sends back every key it knows.
C22_AttrMapBijection ==
    /\ Injective(attr_map)
    /\ \A k \in Keys(BaseQuery_attr_map) \cap Keys(attr_map) :
          Lookup(BaseQuery_attr_map, k) = Lookup(attr_map, k)
    /\ last.op = "names"
       => /\ last.back = last.json
          /\ \A k \in DOMAIN last.json \cap Values(BaseQuery_attr_map) :
                k \in DOMAIN last.query_back /\ last.query_back[k] = last.json[k]

C22_Witness ==
    /\ last.op = "names"
    /\ DOMAIN last.json = {"dateTime", "marketId"}
    /\ DOMAIN last.renamed = {"date_time", "market_id"}
    /\ last.renamed.date_time = <<"dateTime">>
    /\ DOMAIN last.back = {"dateTime", "marketId"}
    /\ DOMAIN last.query_back = {"date_time", "marketId"}

\* the genres of the segment of a response body
GenresOf(body) ==
    IF HasKey(body, "segment") /\ HasKey(body.segment, "_embedded")
    THEN body.segment._embedded.genres
    ELSE <<>>

\* C23: genre_by_id(genre_id) returns the genre of the response's segment whose id
\* is genre_id, and None when the segment has no such genre or the response has no
\* segment.
C23_GenreById ==
    last.op = "genre_by_id"
    => /\ last.result.ok
       /\ IF \E i \in DOMAIN GenresOf(last.body) : GenresOf(last.body)[i].id = last.genre_id
          THEN last.result.val # None /\ last.result.val.id = last.genre_id
          ELSE last.result.val = None

\* C24: a page fetched by next() that has no entity and carries a 'next' link is
\* returned as an empty list, and the next() after it requests the following page
\* while current_page is below the first page's total_pages.
C24_EmptyPageContinues ==
    [][ ( /\ last.op = "next"
          /\ last.reqs = 1
          /\ last.answer = "page"
          /\ last.served = <<>>
          /\ it.page._link_next # None
          /\ last'.op = "next" )
        => ( /\ last.outcome = "return"
             /\ last.items = <<>>
             /\ last.pages = 1
             /\ it.current_page < it.end_page
                  => ( last'.reqs = 1 /\ last'.outcome # "StopIteration" ) ) ]_vars

\* C25: a next() after the first either raises StopIteration and makes no request, or
\* makes one request; when it returns, it returns the entities the server sent in
\* answer to that request.
C25_OneRequestPerPage ==
    ( last.op = "next" /\ ~last.pre_hist.fresh )
    => ( /\ last.outcome = "StopIteration" => last.reqs = 0
         /\ last.outcome # "StopIteration" => last.reqs = 1
         /\ last.outcome = "return"
              => ( last.answer = "page" /\ ItemIds(last.items) = last.served ) )

Min(a, b) == IF a <= b THEN a ELSE b

\* the pages an iterator has to return: the first page, and those after it up to
\* total_pages - 1
Available == Max(it.end_page - it.start_page, 1)

\* the pages the last call had left to return
Left == Available - last.pre_hist.pages

C27_RequestsBounded ==
    phase = "iter"
    => ( /\ hist.requests <= Max(it.end_page - it.start_page - 1, 0)
         /\ ( last.op = "all" /\ last.outcome = "return" )
              => ( out_of_pages(it) /\ ~first_page_pending(it) ) )

\* all() has made every request the bound allows, and the server did not keep to the
\* pages asked for
C27_Witness ==
    /\ phase = "iter"
    /\ last.op = "all"
    /\ last.outcome = "return"
    /\ ~last.honest
    /\ it.end_page - it.start_page = 3
    /\ last.reqs = 2
    /\ hist.requests = 2

\* C28: a call of next() whose request or decoding raised leaves the iterator as it
\* was before the call: the same page held, the same current_page.
C28_FailedNextKeepsState ==
    ( /\ phase = "iter"
      /\ last.op = "next"
      /\ last.reqs = 1
      /\ last.outcome # "return" )
    => ( /\ it.page = last.pre.page
         /\ it.current_page = last.pre.current_page )

\* the position of the first '}' of `s` after position i, or 0
RECURSIVE ClosingAfter(_, _)
ClosingAfter(s, i) ==
    IF i >= Len(s) THEN 0
    ELSE IF s[i + 1] = "}" THEN i + 1
    ELSE ClosingAfter(s, i + 1)

\* the href is text and fragments '{...}', each with one character or more between
\* its braces and no brace among them, and no brace elsewhere
RECURSIVE Templated(_)
Templated(s) ==
    IF s = <<>> THEN TRUE
    ELSE IF s[1] = "}" THEN FALSE
    ELSE IF s[1] # "{" THEN Templated(Tail(s))
    ELSE /\ ClosingAfter(s, 1) > 2
         /\ \A k \in 2..(ClosingAfter(s, 1) - 1) : s[k] # "{"
         /\ Templated(SubSeq(s, ClosingAfter(s, 1) + 1, Len(s)))

\* the characters of a templated href that lie outside its fragments, in order
RECURSIVE OutsideFragments(_)
OutsideFragments(s) ==
    IF s = <<>> THEN <<>>
    ELSE IF s[1] = "{" THEN OutsideFragments(SubSeq(s, ClosingAfter(s, 1) + 1, Len(s)))
    ELSE <<s[1]>> \o OutsideFragments(Tail(s))

\* C29: of an href made of text and '{...}' fragments, the link assign_links stores
\* is the text outside the fragments, every character of it and in order, the text
\* between two fragments included.
C29_OnlyFragmentsRemoved ==
    ( last.op = "links" /\ Templated(last.href) )
    => last.entity = OutsideFragments(last.href)

\* C30: when Event.from_json returns, the JSON object it was given, the objects
\* nested in it included (those of its venues, which Venue.from_json decodes), has
\* the keys and values it had before the call.
C30_InputUnchanged ==
    ( last.op = "decode" /\ last.decoded.ok )
    => last.after = last.json

====
